---- MODULE Spec2Model ----
(***************************************************************************)
(* A model of uokichi's src/main.rs: the Bits trait (mask, eat), the       *)
(* Opdef / Idef instruction encoders, the HexRecord checksum and Display,  *)
(* and the two-pass Code::new.                                             *)
(*                                                                         *)
(* The functions are pure.  Every specification draws a call (function and *)
(* arguments) in Init and its actions run the called code.  The machine    *)
(* word (u64 in the source) is scaled to BitSz bits; HexRecord's u8 / u16  *)
(* fields keep their real widths.  Where the result of a Rust operation    *)
(* depends on the build (arithmetic and shift overflow panics with         *)
(* overflow checks on, and wraps with them off), the variable              *)
(* overflow_checks holds the build's choice.                               *)
(***************************************************************************)
EXTENDS Integers, Sequences, FiniteSets, TLC

VARIABLES
    overflow_checks, \* the build: TRUE = debug (overflow panics), FALSE = release (wraps)
    pc,              \* position of the running call
    call,            \* the function called and its arguments
    ret,             \* what the call returned (or that it panicked)
    opdef,           \* the Opdef built by Opdef::new
    offset,          \* Code::new: the running address counter
    addr_image,      \* Code::new: the address list
    label_table      \* Code::new: the label table (a function name -> address)

vars == <<overflow_checks, pc, call, ret, opdef, offset, addr_image, label_table>>

\* Width in bits of the machine word (mem::size_of::<Self>() * 8; 64 for u64).
BitSz == 4

----------------------------------------------------------------------------
(* Results of a call: a value, or a panic (the call aborts).               *)

Ok(v) == [panic |-> FALSE, val |-> v]
Panic == [panic |-> TRUE, val |-> 0]
NoRet == [panic |-> FALSE, val |-> 0]

----------------------------------------------------------------------------
(* Word arithmetic.                                                        *)

Pow2(n) == 2 ^ n
WordMod == Pow2(BitSz)
max_value == WordMod - 1
Word == 0 .. max_value

RECURSIVE BitAnd(_, _)
BitAnd(a, b) ==
    IF a = 0 \/ b = 0 THEN 0
    ELSE (a % 2) * (b % 2) + 2 * BitAnd(a \div 2, b \div 2)

RECURSIVE BitOr(_, _)
BitOr(a, b) ==
    IF a = 0 THEN b
    ELSE IF b = 0 THEN a
    ELSE (IF a % 2 = 1 \/ b % 2 = 1 THEN 1 ELSE 0) + 2 * BitOr(a \div 2, b \div 2)

BitNot(a) == max_value - a

\* a << n and a >> n for a shift amount below the word width
Shl(a, n) == (a * Pow2(n)) % WordMod
Shr(a, n) == a \div Pow2(n)

\* a << n, a >> n for any shift amount n >= 0: an amount of BitSz or more
\* overflows, which panics under overflow checks and otherwise shifts by
\* the amount reduced modulo the width.
ShlOv(a, n) ==
    IF n < BitSz THEN Ok(Shl(a, n))
    ELSE IF overflow_checks THEN Panic
    ELSE Ok(Shl(a, n % BitSz))

ShrOv(a, n) ==
    IF n < BitSz THEN Ok(Shr(a, n))
    ELSE IF overflow_checks THEN Panic
    ELSE Ok(Shr(a, n % BitSz))

\* a + 1 on a word
AddOneOv(a) ==
    IF a + 1 < WordMod THEN Ok(a + 1)
    ELSE IF overflow_checks THEN Panic
    ELSE Ok((a + 1) % WordMod)

----------------------------------------------------------------------------
(* trait Bits                                                              *)

\* fn mask(ct): !(Self::max_value() << ct)
mask(ct) ==
    LET s == ShlOv(max_value, ct)
    IN  IF s.panic THEN Panic ELSE Ok(BitNot(s.val))

\* fn is_bit_set(self, at), for at < BitSz
is_bit_set(self, at) == BitAnd(Shr(self, at), 1) = 1

\* the loop of eat: for i in 0..bit_sz { ... }
RECURSIVE eat_loop(_, _, _, _)
eat_loop(i, self, val, r) ==
    IF i >= BitSz THEN r
    ELSE IF BitAnd(self, 1) = 1
         THEN eat_loop(i + 1, Shr(self, 1), Shr(val, 1),
                       BitOr(r, Shl(BitAnd(val, 1), i)))
         ELSE eat_loop(i + 1, Shr(self, 1), val, r)

\* eat with `val = val >> 1` moved out of the if: val is consumed at every
\* position, masked or not.
RECURSIVE eat_shift_always(_, _, _, _)
eat_shift_always(i, self, val, r) ==
    IF i >= BitSz THEN r
    ELSE eat_shift_always(i + 1, Shr(self, 1), Shr(val, 1),
                          IF BitAnd(self, 1) = 1
                          THEN BitOr(r, Shl(BitAnd(val, 1), i)) ELSE r)

eat_mutant(self, val) == eat_shift_always(0, self, val, 0)

\* fn eat(mut self, mut val)
eat(self, val) == eat_loop(0, self, val, 0)

----------------------------------------------------------------------------
(* Specification SpecBits: calls of Bits::mask and Bits::eat.              *)

NoOpdef == [base |-> 0, args |-> <<>>]

MaskCalls == {[fn |-> "mask", ct |-> k] : k \in 0 .. BitSz + 1}
EatCalls == {[fn |-> "eat", self |-> m, val |-> v] : m \in Word, v \in Word}

CodeIdle ==
    /\ opdef = NoOpdef
    /\ offset = 0
    /\ addr_image = <<>>
    /\ label_table = <<>>

InitBits ==
    /\ overflow_checks \in BOOLEAN
    /\ pc = "call"
    /\ call \in MaskCalls \cup EatCalls
    /\ ret = NoRet
    /\ CodeIdle

Call_mask ==
    /\ pc = "call"
    /\ call.fn = "mask"
    /\ ret' = mask(call.ct)
    /\ pc' = "done"
    /\ UNCHANGED <<overflow_checks, call, opdef, offset, addr_image, label_table>>

Call_eat ==
    /\ pc = "call"
    /\ call.fn = "eat"
    /\ ret' = Ok(eat(call.self, call.val))
    /\ pc' = "done"
    /\ UNCHANGED <<overflow_checks, call, opdef, offset, addr_image, label_table>>

NextBits == Call_mask \/ Call_eat

SpecBits == InitBits /\ [][NextBits]_vars

----------------------------------------------------------------------------
(* Claims about Bits (checked under SpecBits).                             *)

BitAt(x, i) == (x \div Pow2(i)) % 2
PopCount(m) == Cardinality({q \in 0 .. BitSz - 1 : BitAt(m, q) = 1})
\* the number of set positions of m below position p
Rank(m, p) == Cardinality({q \in 0 .. p - 1 : BitAt(m, q) = 1})

\* The word that holds bit Rank(m, p) of v at every set position p of m.
RECURSIVE ScatterFrom(_, _, _)
ScatterFrom(p, m, v) ==
    IF p >= BitSz THEN 0
    ELSE (IF BitAt(m, p) = 1 THEN BitAt(v, Rank(m, p)) * Pow2(p) ELSE 0)
         + ScatterFrom(p + 1, m, v)

EatDone == pc = "done" /\ call.fn = "eat"
MaskDone == pc = "done" /\ call.fn = "mask"

\* C9: eat(mask, value) holds bit j of value at the j-th lowest set position
\* of mask and 0 wherever mask is 0; so no result bit lies outside mask, and
\* the bits of value at index >= popcount(mask) do not matter.
C9_EatScatters ==
    EatDone =>
        /\ ret = Ok(ScatterFrom(0, call.self, call.val))
        /\ \A p \in 0 .. BitSz - 1 :
             /\ BitAt(call.self, p) = 0 => BitAt(ret.val, p) = 0
             /\ BitAt(call.self, p) = 1
                  => BitAt(ret.val, p) = BitAt(call.val, Rank(call.self, p))
        /\ \A v2 \in Word :
             v2 % Pow2(PopCount(call.self)) = call.val % Pow2(PopCount(call.self))
                => eat(call.self, v2) = ret.val

\* A split mask (0b1010) scatters 0b111: bits 0 and 1 land at positions 1
\* and 3, bit 2 is dropped.
C9_Witness ==
    /\ EatDone
    /\ call.self = 10
    /\ call.val = 7
    /\ ret = Ok(10)

\* C8: for every k up to and including the word width, mask(k) is the word
\* with exactly the low k bits set, and eat(mask(k), v) = v for all v < 2^k.
C8_IdentityScatter ==
    (MaskDone /\ call.ct <= BitSz) =>
        /\ ~ret.panic
        /\ ret.val = Pow2(call.ct) - 1
        /\ \A v \in 0 .. Pow2(call.ct) - 1 : eat(ret.val, v) = v

\* What does hold of mask and eat: the same for k below the word width.
C8_BelowWidth ==
    (MaskDone /\ call.ct < BitSz) =>
        /\ ~ret.panic
        /\ ret.val = Pow2(call.ct) - 1
        /\ \A v \in 0 .. Pow2(call.ct) - 1 : eat(ret.val, v) = v

\* mask(BitSz): the shift amount overflows.
C8_AtWidth ==
    (MaskDone /\ call.ct = BitSz) =>
        IF overflow_checks THEN ret = Panic ELSE ret = Ok(0)

----------------------------------------------------------------------------
(* struct Opdef, struct Idef                                               *)

\* Largest number of characters of a drawn template pattern.
MaxPat == 3
\* Largest number of argument values of a drawn call.
MaxArgs == 3

Min(a, b) == IF a <= b THEN a ELSE b

\* spec_bytes.iter().fold(0, |acc, byte| if byte == c { (acc << 1) | 1 }
\*                                       else { acc << 1 })
RECURSIVE fold_spec(_, _, _)
fold_spec(spec_bytes, c, acc) ==
    IF spec_bytes = <<>> THEN acc
    ELSE fold_spec(Tail(spec_bytes), c,
                   IF Head(spec_bytes) = c
                   THEN BitOr(Shl(acc, 1), 1)
                   ELSE Shl(acc, 1))

\* Opdef::new with the masks in the order their letters first occur in the
\* pattern, not in arg_order's order.
RECURSIVE FirstOccurrences(_, _, _)
FirstOccurrences(spec_bytes, letters, seen) ==
    IF spec_bytes = <<>> THEN seen
    ELSE LET c == Head(spec_bytes)
         IN  FirstOccurrences(Tail(spec_bytes), letters,
                 IF c \in letters /\ \A i \in 1 .. Len(seen) : seen[i] # c
                 THEN Append(seen, c) ELSE seen)

Opdef_new_mutant(spec_str, arg_order) ==
    LET letters == {arg_order[i] : i \in 1 .. Len(arg_order)}
        inPat == FirstOccurrences(spec_str, letters, <<>>)
        rest == SelectSeq(arg_order, LAMBDA c : \A i \in 1 .. Len(inPat) : inPat[i] # c)
        order == inPat \o rest
    IN  [base |-> fold_spec(spec_str, "1", 0),
         args |-> [i \in 1 .. Len(order) |-> fold_spec(spec_str, order[i], 0)]]

\* fn Opdef::new(spec_str, arg_order)
Opdef_new(spec_str, arg_order) ==
    [base |-> fold_spec(spec_str, "1", 0),
     args |-> [i \in 1 .. Len(arg_order) |-> fold_spec(spec_str, arg_order[i], 0)]]

\* arg_vals.iter().zip(self.args.iter()).map(|(&arg, &mask)| mask.eat(arg))
\*     .fold(self.base, |acc, x| acc | x), from pair i on
RECURSIVE apply_fold(_, _, _, _)
apply_fold(i, od, arg_vals, acc) ==
    IF i > Min(Len(arg_vals), Len(od.args)) THEN acc
    ELSE apply_fold(i + 1, od, arg_vals, BitOr(acc, eat(od.args[i], arg_vals[i])))

\* fn Opdef::apply(&self, arg_vals)
Opdef_apply(od, arg_vals) == apply_fold(1, od, arg_vals, od.base)

\* fn Idef::apply(&self, args), self = [name, opdef, shift]; args[0] of an
\* empty slice panics.
Idef_apply(idef, args) ==
    IF idef.shift = 0 THEN Ok(Opdef_apply(idef.opdef, args))
    ELSE IF Len(args) = 0 THEN Panic
    ELSE LET arg == ShrOv(args[1], idef.shift)
         IN  IF arg.panic THEN Panic
             ELSE Ok(Opdef_apply(idef.opdef, <<arg.val>>))

----------------------------------------------------------------------------
(* Specification SpecOpdef: Opdef::new, then Opdef::apply or Idef::apply.  *)

SeqsUpTo(S, n) == UNION {[1 .. k -> S] : k \in 0 .. n}

PatChars == {"0", "1", "a", "b"}
\* the patterns of main (the second and third) and of its commented example
MainPatterns ==
    { <<"0", "1", "0", "1", "a", "a", "b", "b">>,
      <<"0", "0", "1", "1", "a", "a", "b", "b">>,
      <<"0", "0", "1", "1", "a", "a", "a", "a">> }
\* patterns as long as the word is wide: c1 ... c1 c2 ... c2
FullPatterns ==
    {[i \in 1 .. BitSz |-> IF i <= k THEN c1 ELSE c2] :
        k \in 0 .. BitSz, c1 \in PatChars, c2 \in PatChars}
Patterns == SeqsUpTo(PatChars, MaxPat) \cup FullPatterns \cup MainPatterns
ArgOrders == { <<>>, <<"a">>, <<"a", "b">>, <<"b", "a">>, <<"a", "a">>, <<"1">> }
ArgVals == {0, 1, max_value - 1}
ArgLists == SeqsUpTo(ArgVals, MaxArgs)
\* shift amounts: none, below the width, the width, above it, and main's 8
Shifts == (0 .. BitSz + 1) \cup {8}

OpdefCalls ==
    {[fn |-> "Opdef::apply", spec_str |-> p, arg_order |-> o, arg_vals |-> a] :
        p \in Patterns, o \in ArgOrders, a \in ArgLists}

\* main's instruction definitions add and jmp, and lo, whose pattern fits the
\* word; each with every shift
IdefCalls ==
    {[fn |-> "Idef::apply", name |-> d[1], spec_str |-> d[2], arg_order |-> d[3],
      shift |-> s, arg_vals |-> a] :
        d \in { <<"add", <<"0", "0", "1", "1", "a", "a", "b", "b">>, <<"a", "b">> >>,
                <<"jmp", <<"0", "0", "1", "1", "a", "a", "a", "a">>, <<"a">> >>,
                <<"lo", <<"0", "1", "a", "b">>, <<"a", "b">> >> },
        s \in Shifts, a \in SeqsUpTo(Word, 1) \cup ArgLists}

InitOpdef ==
    /\ overflow_checks \in BOOLEAN
    /\ pc = "call"
    /\ call \in OpdefCalls \cup IdefCalls
    /\ ret = NoRet
    /\ CodeIdle

Call_Opdef_new ==
    /\ pc = "call"
    /\ call.fn \in {"Opdef::apply", "Idef::apply"}
    /\ opdef' = Opdef_new(call.spec_str, call.arg_order)
    /\ pc' = "built"
    /\ UNCHANGED <<overflow_checks, call, ret, offset, addr_image, label_table>>

Call_Opdef_apply ==
    /\ pc = "built"
    /\ call.fn = "Opdef::apply"
    /\ ret' = Ok(Opdef_apply(opdef, call.arg_vals))
    /\ pc' = "done"
    /\ UNCHANGED <<overflow_checks, call, opdef, offset, addr_image, label_table>>

Call_Idef_apply ==
    /\ pc = "built"
    /\ call.fn = "Idef::apply"
    /\ ret' = Idef_apply([name |-> call.name, opdef |-> opdef, shift |-> call.shift],
                         call.arg_vals)
    /\ pc' = "done"
    /\ UNCHANGED <<overflow_checks, call, opdef, offset, addr_image, label_table>>

NextOpdef == Call_Opdef_new \/ Call_Opdef_apply \/ Call_Idef_apply

SpecOpdef == InitOpdef /\ [][NextOpdef]_vars

----------------------------------------------------------------------------
(* Claims about Opdef and Idef (checked under SpecOpdef).                  *)

OpdefApplyDone == pc = "done" /\ call.fn = "Opdef::apply"
IdefApplyDone == pc = "done" /\ call.fn = "Idef::apply"

\* a pattern that fits the word, and distinct argument letters, none '0' or '1'
TemplatePre ==
    /\ Len(call.spec_str) <= BitSz
    /\ \A i, j \in 1 .. Len(call.arg_order) :
         i # j => call.arg_order[i] # call.arg_order[j]
    /\ \A i \in 1 .. Len(call.arg_order) : call.arg_order[i] \notin {"0", "1"}

\* the pattern character that stands at bit position j (0 = least significant)
PatCharAt(j) == call.spec_str[Len(call.spec_str) - j]
\* how often the character of position j occurs at less significant positions
LowerOccurrences(j) ==
    Cardinality({q \in 0 .. j - 1 : PatCharAt(q) = PatCharAt(j)})

\* C3: Opdef::apply returns the word with 1 where the pattern has '1', 0
\* where it has '0', and, where it has the letter arg_order[i], the bit of
\* arg_vals[i] whose index is the number of occurrences of that letter at
\* less significant positions; a letter without argument gives 0, surplus
\* arguments are ignored, and all-zero arguments give exactly base.
C3_TemplateApply ==
    (OpdefApplyDone /\ TemplatePre) =>
        /\ ~ret.panic
        /\ \A j \in 0 .. Len(call.spec_str) - 1 :
             /\ PatCharAt(j) = "1" => BitAt(ret.val, j) = 1
             /\ PatCharAt(j) = "0" => BitAt(ret.val, j) = 0
             /\ \A i \in 1 .. Len(call.arg_order) :
                  call.arg_order[i] = PatCharAt(j) =>
                      BitAt(ret.val, j) =
                          IF i <= Len(call.arg_vals)
                          THEN BitAt(call.arg_vals[i], LowerOccurrences(j))
                          ELSE 0
        /\ (\A i \in 1 .. Len(call.arg_vals) : call.arg_vals[i] = 0)
              => ret.val = opdef.base

\* Pattern "aba" with arg_order "ba": the first argument goes to b, the
\* second one's bits 0 and 1 go to the two a positions.
C3_Witness ==
    /\ OpdefApplyDone
    /\ call.spec_str = <<"a", "b", "a">>
    /\ call.arg_order = <<"b", "a">>
    /\ call.arg_vals = <<1, max_value - 1>>
    /\ ret = Ok(6)

\* C10: for a non-empty argument list, Idef::apply is the template's apply
\* on the unchanged list when shift is 0, and on the one-element list
\* [floor(args[0] / 2^shift)] for every positive shift, also one as large as
\* the word width or larger.
C10_IdefApply ==
    (IdefApplyDone /\ Len(call.arg_vals) >= 1) =>
        IF call.shift = 0
        THEN ret = Ok(Opdef_apply(opdef, call.arg_vals))
        ELSE ret = Ok(Opdef_apply(opdef, <<call.arg_vals[1] \div Pow2(call.shift)>>))

\* What does hold of Idef::apply: the same for shifts below the word width.
C10_BelowWidth ==
    (IdefApplyDone /\ Len(call.arg_vals) >= 1 /\ call.shift < BitSz) =>
        IF call.shift = 0
        THEN ret = Ok(Opdef_apply(opdef, call.arg_vals))
        ELSE ret = Ok(Opdef_apply(opdef, <<call.arg_vals[1] \div Pow2(call.shift)>>))

\* A shift of the word width or more overflows: a panic, or a shift by the
\* amount modulo the width.
C10_AtWidth ==
    (IdefApplyDone /\ Len(call.arg_vals) >= 1 /\ call.shift >= BitSz) =>
        IF overflow_checks THEN ret = Panic
        ELSE ret = Ok(Opdef_apply(opdef,
                 <<call.arg_vals[1] \div Pow2(call.shift % BitSz)>>))

----------------------------------------------------------------------------
(* struct HexRecord: u16 address, u8 bytes, at their real widths.          *)

\* Largest length of a drawn short payload.
MaxData == 2

\* HexRecordType as u8 / as u16: the variants' discriminants
HexRecordType ==
    [Data |-> 0, EndOfFile |-> 1, ExtendedSegmentAddress |-> 2,
     StartSegmentAddress |-> 3, ExtendedLinearAddress |-> 4,
     StarLinearAddress |-> 5]

\* u16::wrapping_add
wrapping_add(a, b) == (a + b) % 65536

\* (num ^ u16::max_value()) without the wrapping_add(1): the ones' complement
twos_complement_mutant(num) == 65535 - num

\* fn twos_complement(num: u16): (num ^ u16::max_value()).wrapping_add(1)
twos_complement(num) == wrapping_add(65535 - num, 1)

\* for byte in &self.data { ret = ret.wrapping_add(*byte as u16) }, over
\* data[lo .. hi] in order.  The range is walked by halves, and the sum of
\* the first half is evaluated (it is a u16) before the second half starts,
\* which keeps TLC's evaluation shallow.
RECURSIVE add_bytes(_, _, _, _)
add_bytes(r, data, lo, hi) ==
    IF lo > hi THEN r
    ELSE IF lo = hi THEN wrapping_add(r, data[lo])
    ELSE LET mid == (lo + hi) \div 2
             r1 == add_bytes(r, data, lo, mid)
         IN  IF r1 \in 0 .. 65535 THEN add_bytes(r1, data, mid + 1, hi) ELSE r1

\* fn HexRecord::checksum(&self)
checksum(rec) ==
    LET r1 == wrapping_add(0, rec.addr)
        r2 == wrapping_add(r1, HexRecordType[rec.typ])
        r3 == wrapping_add(r2, rec.addr \div 256)
        r4 == wrapping_add(r3, Len(rec.data) % 65536)
        r5 == add_bytes(r4, rec.data, 1, Len(rec.data))
    IN  twos_complement(r5) % 256

HexDigit ==
    <<"0", "1", "2", "3", "4", "5", "6", "7", "8", "9", "a", "b", "c", "d", "e", "f">>

\* {:x}: the hexadecimal digits of n, most significant first, at least one
RECURSIVE LowerHex(_)
LowerHex(n) ==
    IF n < 16 THEN <<HexDigit[n + 1]>>
    ELSE Append(LowerHex(n \div 16), HexDigit[(n % 16) + 1])

\* {:0Wx}: LowerHex padded with '0' on the left to at least w characters
RECURSIVE PadZero(_, _)
PadZero(digits, w) ==
    IF Len(digits) >= w THEN digits ELSE PadZero(<<"0">> \o digits, w)

Fmt02x(n) == PadZero(LowerHex(n), 2)
Fmt04x(n) == PadZero(LowerHex(n), 4)

\* for byte in &self.data { write!(f, "{:02x}", *byte)?; }, over
\* data[lo .. hi] in order (evaluated by halves to keep the recursion shallow)
RECURSIVE fmt_bytes(_, _, _)
fmt_bytes(data, lo, hi) ==
    IF lo > hi THEN <<>>
    ELSE IF lo = hi THEN Fmt02x(data[lo])
    ELSE LET mid == (lo + hi) \div 2
         IN  fmt_bytes(data, lo, mid) \o fmt_bytes(data, mid + 1, hi)

\* impl Display for HexRecord: fn fmt
fmt(rec) ==
    <<":">> \o Fmt02x(Len(rec.data) % 256) \o Fmt04x(rec.addr)
            \o Fmt02x(HexRecordType[rec.typ])
            \o fmt_bytes(rec.data, 1, Len(rec.data))
            \o Fmt02x(checksum(rec))

----------------------------------------------------------------------------
(* Specification SpecHex: HexRecord::checksum and HexRecord's Display.     *)

RecordTypes == DOMAIN HexRecordType
\* 0x0000, 0x0030 (the record of main's example), 0x00ff, 0x0100, 0x1234, 0xffff
HexAddrs == {0, 48, 255, 256, 4660, 65535}
\* 0x02, 0x33, 0x7a (the bytes of main's example), 0xff
HexBytes == {2, 51, 122, 255}
\* payloads around the largest length two hexadecimal digits can hold
LongLens == {255, 256, 257}
LongPayloads ==
    {[i \in 1 .. n |-> IF i = 1 THEN b ELSE 0] : n \in LongLens, b \in HexBytes}
Payloads ==
    SeqsUpTo(HexBytes, MaxData) \cup {<<2, 51, 122>>} \cup LongPayloads

HexRecords ==
    {[typ |-> t, addr |-> a, data |-> d] :
        t \in RecordTypes, a \in HexAddrs, d \in Payloads}

HexCalls == {[fn |-> f, rec |-> r] : f \in {"checksum", "fmt"}, r \in HexRecords}

InitHex ==
    /\ overflow_checks \in BOOLEAN
    /\ pc = "call"
    /\ call \in HexCalls
    /\ ret = NoRet
    /\ CodeIdle

Call_checksum ==
    /\ pc = "call"
    /\ call.fn = "checksum"
    /\ ret' = Ok(checksum(call.rec))
    /\ pc' = "done"
    /\ UNCHANGED <<overflow_checks, call, opdef, offset, addr_image, label_table>>

Call_fmt ==
    /\ pc = "call"
    /\ call.fn = "fmt"
    /\ ret' = Ok(fmt(call.rec))
    /\ pc' = "done"
    /\ UNCHANGED <<overflow_checks, call, opdef, offset, addr_image, label_table>>

NextHex == Call_checksum \/ Call_fmt

SpecHex == InitHex /\ [][NextHex]_vars

----------------------------------------------------------------------------
(* Claims about HexRecord (checked under SpecHex).                         *)

ChecksumDone == pc = "done" /\ call.fn = "checksum"
FmtDone == pc = "done" /\ call.fn = "fmt"

RECURSIVE SumRange(_, _, _)
SumRange(q, lo, hi) ==
    IF lo > hi THEN 0
    ELSE IF lo = hi THEN q[lo]
    ELSE SumRange(q, lo, (lo + hi) \div 2) + SumRange(q, (lo + hi) \div 2 + 1, hi)
SumSeq(q) == SumRange(q, 1, Len(q))

\* S: address low byte + address high byte + type code + payload length
\* + every payload byte, as a natural number
FieldSum(rec) ==
    (rec.addr % 256) + (rec.addr \div 256) + HexRecordType[rec.typ]
        + Len(rec.data) + SumSeq(rec.data)

\* C6: checksum is (0 - S) mod 256: a byte that with S adds up to a
\* multiple of 256.
C6_Checksum ==
    ChecksumDone =>
        /\ ret.val \in 0 .. 255
        /\ ret.val = (256 - (FieldSum(call.rec) % 256)) % 256
        /\ (ret.val + FieldSum(call.rec)) % 256 = 0

\* The record of main's example, :0300300002337a1e, has checksum 0x1e.
C6_Witness ==
    /\ ChecksumDone
    /\ call.rec = [typ |-> "Data", addr |-> 48, data |-> <<2, 51, 122>>]
    /\ ret = Ok(30)

\* A line read back: 2-digit length, 4-digit address, 2-digit type, that
\* many payload bytes, 2-digit checksum.
HexValue(c) == CHOOSE d \in 0 .. 15 : HexDigit[d + 1] = c
RECURSIVE ParseHex(_)
ParseHex(digits) ==
    IF digits = <<>> THEN 0
    ELSE 16 * ParseHex(SubSeq(digits, 1, Len(digits) - 1))
         + HexValue(digits[Len(digits)])

ParseLine(line) ==
    LET len == ParseHex(SubSeq(line, 2, 3))
    IN  [len |-> len,
         addr |-> ParseHex(SubSeq(line, 4, 7)),
         code |-> ParseHex(SubSeq(line, 8, 9)),
         data |-> [i \in 1 .. len |-> ParseHex(SubSeq(line, 8 + 2 * i, 9 + 2 * i))],
         sum |-> ParseHex(SubSeq(line, 10 + 2 * len, 11 + 2 * len)),
         end |-> 11 + 2 * len]

TypeOfCode(c) == CHOOSE t \in RecordTypes : HexRecordType[t] = c

ParsedRecord(line) ==
    LET p == ParseLine(line)
    IN  [typ |-> TypeOfCode(p.code), addr |-> p.addr, data |-> p.data]

\* C7: for a record of any payload length, the checksum recomputed over the
\* fields parsed from the Display line is the record's checksum, and is the
\* line's last byte.
C7_RoundTrip ==
    FmtDone =>
        LET line == ret.val
            p == ParseLine(line)
        IN  /\ checksum(ParsedRecord(line)) = checksum(call.rec)
            /\ p.sum = checksum(call.rec)
            /\ p.end = Len(line)
            /\ ParseHex(SubSeq(line, Len(line) - 1, Len(line))) = checksum(call.rec)

\* What does hold of Display: the round trip for payloads of at most 255
\* bytes, where the parsed record is the record itself.
C7_UpTo255 ==
    (FmtDone /\ Len(call.rec.data) <= 255) =>
        LET line == ret.val
            p == ParseLine(line)
        IN  /\ ParsedRecord(line) = call.rec
            /\ checksum(ParsedRecord(line)) = checksum(call.rec)
            /\ p.sum = checksum(call.rec)
            /\ p.end = Len(line)

\* The line of main's example record.
C7_MainExample ==
    (FmtDone /\ call.rec = [typ |-> "Data", addr |-> 48, data |-> <<2, 51, 122>>]) =>
        ret.val = <<":", "0", "3", "0", "0", "3", "0", "0", "0",
                    "0", "2", "3", "3", "7", "a", "1", "e">>

----------------------------------------------------------------------------
(* enum CodeObject, enum CompileError, Code::new                           *)

\* Largest length of a drawn object sequence.
MaxCode == 5

\* enum CodeObject.  Code::new reads neither an Instruction's fields nor a
\* RawData's word.
Instruction == [kind |-> "Instruction", val |-> 0, label |-> ""]
RawData(w) == [kind |-> "RawData", val |-> w, label |-> ""]
AddressTag(a) == [kind |-> "AddressTag", val |-> a, label |-> ""]
LabelTag(l) == [kind |-> "LabelTag", val |-> 0, label |-> l]

\* Result<Code, CompileError>
Err_StartWithAddressTag ==
    Ok([tag |-> "Err", error |-> "StartWithAddressTag", label |-> ""])
Err_DuplicateLabel(l) ==
    Ok([tag |-> "Err", error |-> "DuplicateLabel", label |-> l])
Ok_Code(info, code, image, table) ==
    Ok([tag |-> "Ok", info |-> info, code |-> code,
        addr_image |-> image, label_table |-> table])

\* Pass 1, the loop `for i in 0..code.len()` from object i on:
\* [panic, offset, addr_image] when the loop ends or `offset += 1` panics.
RECURSIVE pass1(_, _, _, _)
pass1(code, i, off, image) ==
    IF i > Len(code)
    THEN [panic |-> FALSE, offset |-> off, addr_image |-> image]
    ELSE LET pushed == Append(image, off)
         IN  CASE code[i].kind = "AddressTag" ->
                    pass1(code, i + 1, code[i].val, pushed)
               [] code[i].kind \in {"RawData", "Instruction"} ->
                    LET next == AddOneOv(off)
                    IN  IF next.panic
                        THEN [panic |-> TRUE, offset |-> off, addr_image |-> pushed]
                        ELSE pass1(code, i + 1, next.val, pushed)
               [] OTHER ->
                    pass1(code, i + 1, off, pushed)

\* the duplicate check left out: a later label overwrites an earlier one
contains_key_never(table, label, addr) == FALSE

\* the duplicate check taken to mean a conflicting definition only
contains_key_other_addr(table, label, addr) ==
    label \in DOMAIN table /\ table[label] # addr

\* label_table.contains_key(label), evaluated for the pair (addr, obj)
contains_key(table, label, addr) == label \in DOMAIN table

\* label_table.insert(label.clone(), addr)
insert(table, label, addr) ==
    [l \in DOMAIN table \cup {label} |-> IF l = label THEN addr ELSE table[l]]

\* Pass 2, the loop over addr_image.iter().zip(code.iter()) from pair i on:
\* [dup, label, label_table] when the loop ends or returns the error.
RECURSIVE pass2(_, _, _, _)
pass2(code, image, i, table) ==
    IF i > Min(Len(image), Len(code))
    THEN [dup |-> FALSE, label |-> "", label_table |-> table]
    ELSE IF code[i].kind = "LabelTag"
         THEN IF contains_key(table, code[i].label, image[i])
              THEN [dup |-> TRUE, label |-> code[i].label, label_table |-> table]
              ELSE pass2(code, image, i + 1, insert(table, code[i].label, image[i]))
         ELSE pass2(code, image, i + 1, table)

----------------------------------------------------------------------------
(* Specification SpecCode: Code::new, a step for each part of its body.    *)

CodeAddrs == {0, max_value}
LabelNames == {"start", "another"}
CodeObjects ==
    {AddressTag(a) : a \in CodeAddrs} \cup {RawData(0), Instruction}
        \cup {LabelTag(l) : l \in LabelNames}

\* the two object sequences of main (RawData(0xad) at the word's width)
MainCode1 ==
    <<AddressTag(0), LabelTag("start"), Instruction, Instruction,
      RawData(173 % WordMod)>>
MainCode2 ==
    <<AddressTag(0), LabelTag("start"), Instruction, Instruction,
      LabelTag("another"), RawData(173 % WordMod)>>

CodeInfo == [opcode_size |-> 8, address_size |-> 16]

CodeCalls ==
    {[fn |-> "Code::new", info |-> CodeInfo, code |-> c] :
        c \in SeqsUpTo(CodeObjects, MaxCode) \cup {MainCode1, MainCode2}}

InitCode ==
    /\ overflow_checks \in BOOLEAN
    /\ pc = "call"
    /\ call \in CodeCalls
    /\ ret = NoRet
    /\ CodeIdle

\* let mut offset = if let AddressTag(addr) = code[0] { addr }
\*                  else { return Err(StartWithAddressTag) };
\* code[0] of an empty vector panics (index out of bounds).
Code_new_first ==
    /\ pc = "call"
    /\ call.fn = "Code::new"
    /\ IF Len(call.code) = 0
       THEN /\ ret' = Panic
            /\ pc' = "done"
            /\ UNCHANGED offset
       ELSE IF call.code[1].kind = "AddressTag"
       THEN /\ offset' = call.code[1].val
            /\ pc' = "pass1"
            /\ UNCHANGED ret
       ELSE /\ ret' = Err_StartWithAddressTag
            /\ pc' = "done"
            /\ UNCHANGED offset
    /\ UNCHANGED <<overflow_checks, call, opdef, addr_image, label_table>>

\* let mut addr_image = Vec::new(); for i in 0..code.len() { ... }
Code_new_pass1 ==
    /\ pc = "pass1"
    /\ LET r == pass1(call.code, 1, offset, <<>>)
       IN  /\ offset' = r.offset
           /\ addr_image' = r.addr_image
           /\ IF r.panic
              THEN ret' = Panic /\ pc' = "done"
              ELSE ret' = ret /\ pc' = "pass2"
    /\ UNCHANGED <<overflow_checks, call, opdef, label_table>>

\* let mut label_table = HashMap::new(); for (&addr, obj) in ... { ... }
\* Ok(Code { info, code, addr_image, label_table })
Code_new_pass2 ==
    /\ pc = "pass2"
    /\ LET r == pass2(call.code, addr_image, 1, <<>>)
       IN  /\ label_table' = r.label_table
           /\ ret' = IF r.dup THEN Err_DuplicateLabel(r.label)
                     ELSE Ok_Code(call.info, call.code, addr_image, r.label_table)
    /\ pc' = "done"
    /\ UNCHANGED <<overflow_checks, call, opdef, offset, addr_image>>

NextCode == Code_new_first \/ Code_new_pass1 \/ Code_new_pass2

SpecCode == InitCode /\ [][NextCode]_vars

----------------------------------------------------------------------------
(* Claims about Code::new (checked under SpecCode).                        *)

CodeNewDone == pc = "done" /\ call.fn = "Code::new"
Built == CodeNewDone /\ ~ret.panic /\ ret.val.tag = "Ok"
FirstIsAddressTag == Len(call.code) >= 1 /\ call.code[1].kind = "AddressTag"
LabelPositions == {i \in 1 .. Len(call.code) : call.code[i].kind = "LabelTag"}
LabelsDistinct ==
    \A i, j \in LabelPositions : i # j => call.code[i].label # call.code[j].label
\* the positions of LabelTags whose name an earlier LabelTag carries
RepeatPositions ==
    {j \in LabelPositions :
        \E i \in LabelPositions : i < j /\ call.code[i].label = call.code[j].label}
MinOf(S) == CHOOSE x \in S : \A y \in S : x <= y

\* the address list the claim describes, given as a predicate on a list
IsAddressList(image, plus_one(_)) ==
    /\ Len(image) = Len(call.code)
    /\ image[1] = call.code[1].val
    /\ \A i \in 2 .. Len(call.code) :
         image[i] =
            CASE call.code[i - 1].kind = "AddressTag" -> call.code[i - 1].val
              [] call.code[i - 1].kind \in {"Instruction", "RawData"} ->
                    plus_one(image[i - 1])
              [] OTHER -> image[i - 1]

\* C1: for a sequence that starts with AddressTag(a0) and has distinct
\* label names, Code::new yields one address per object: addresses[0] = a0
\* and addresses[i] is v after AddressTag(v), addresses[i-1] + 1 after an
\* Instruction or a RawData, addresses[i-1] after a LabelTag.
C1_AddressList ==
    (CodeNewDone /\ FirstIsAddressTag /\ LabelsDistinct) =>
        /\ Built
        /\ IsAddressList(ret.val.addr_image, LAMBDA a : a + 1)

\* What does hold of pass 1: whenever Code::new returns a program, its
\* address list is the described one with the increment taken modulo the
\* word; and Code::new returns one unless an increment of the largest
\* address panics.
C1_ModuloWord ==
    (CodeNewDone /\ FirstIsAddressTag /\ LabelsDistinct) =>
        /\ Built => IsAddressList(ret.val.addr_image, LAMBDA a : (a + 1) % WordMod)
        /\ ~Built =>
              /\ ret = Panic
              /\ overflow_checks
              /\ \E i \in 1 .. Len(call.code) :
                    /\ call.code[i].kind \in {"Instruction", "RawData"}
                    /\ addr_image[i] = max_value

\* The address lists of main's two programs.
C1_MainExamples ==
    /\ (CodeNewDone /\ call.code = MainCode1)
          => Built /\ ret.val.addr_image = <<0, 0, 0, 1, 2>>
    /\ (CodeNewDone /\ call.code = MainCode2)
          => Built /\ ret.val.addr_image = <<0, 0, 0, 1, 2, 2>>

\* C2: whenever Code::new succeeds, the keys of the label table are exactly
\* the names of the input's LabelTags, and every name maps to the address
\* pass 1 recorded at that LabelTag's own position (main's second program
\* gives start -> 0 and another -> 2).
C2_LabelTable ==
    Built =>
        /\ DOMAIN ret.val.label_table = {call.code[i].label : i \in LabelPositions}
        /\ \A i \in LabelPositions :
             ret.val.label_table[call.code[i].label] = ret.val.addr_image[i]
        /\ call.code = MainCode2 =>
             /\ ret.val.label_table["start"] = 0
             /\ ret.val.label_table["another"] = 2

\* main's second program is built, with both labels.
C2_Witness ==
    /\ Built
    /\ call.code = MainCode2
    /\ ret.val.addr_image = <<0, 0, 0, 1, 2, 2>>
    /\ DOMAIN ret.val.label_table = {"start", "another"}
    /\ ret.val.label_table["another"] = 2

\* C4: for every sequence in which two LabelTags carry the same name,
\* wherever they stand, Code::new returns DuplicateLabel carrying that name
\* (the name of such a pair) and builds no program.
C4_DuplicateAnywhere ==
    (CodeNewDone /\ RepeatPositions # {}) =>
        /\ ~ret.panic
        /\ ret.val.tag = "Err"
        /\ ret.val.error = "DuplicateLabel"
        /\ \E j \in RepeatPositions : ret.val.label = call.code[j].label

\* C4 as amended: for a sequence that starts with an AddressTag and in
\* which two LabelTags carry the same name, Code::new builds no program;
\* it returns DuplicateLabel carrying the name of the first LabelTag that
\* repeats an earlier one, except that it panics when pass 1 increments
\* the largest address under overflow checks.
C4_DuplicateAfterAddressTag ==
    (CodeNewDone /\ FirstIsAddressTag /\ RepeatPositions # {}) =>
        /\ ~Built
        /\ ~ret.panic =>
              ret = Err_DuplicateLabel(call.code[MinOf(RepeatPositions)].label)
        /\ ret.panic =>
              /\ overflow_checks
              /\ \E i \in 1 .. Len(call.code) :
                    /\ call.code[i].kind \in {"Instruction", "RawData"}
                    /\ addr_image[i] = max_value

\* Two LabelTags of one name at different addresses, after an AddressTag:
\* DuplicateLabel.
C4_Witness ==
    /\ CodeNewDone
    /\ call.code = <<AddressTag(0), LabelTag("start"), RawData(0), LabelTag("start")>>
    /\ addr_image = <<0, 0, 0, 1>>
    /\ ret = Err_DuplicateLabel("start")

\* C5: for every sequence whose first element is not an AddressTag, the
\* empty sequence included, Code::new returns StartWithAddressTag as a
\* value, before any address is assigned or any label is examined.
C5_StartWithAddressTag ==
    (CodeNewDone /\ ~FirstIsAddressTag) =>
        /\ ret = Err_StartWithAddressTag
        /\ addr_image = <<>>
        /\ label_table = <<>>

\* What does hold of Code::new: the same for non-empty sequences.
C5_NonEmpty ==
    (CodeNewDone /\ ~FirstIsAddressTag /\ Len(call.code) >= 1) =>
        /\ ret = Err_StartWithAddressTag
        /\ addr_image = <<>>
        /\ label_table = <<>>

\* Code::new of the empty sequence: code[0] panics.
C5_Empty ==
    (CodeNewDone /\ call.code = <<>>) => ret = Panic

====
